---- MODULE Spec2Model ----
(***************************************************************************)
(* Order intake (POST /api/orders) and order detail (GET                   *)
(* /api/orders/{orderNumber}) of naturia-admin, as a state machine over    *)
(* the tables of the managed store.  Every awaited store call of a handler *)
(* is one action, so requests interleave exactly at the awaits.            *)
(***************************************************************************)
EXTENDS Integers, Sequences, FiniteSets, TLC

\* ---------------------------------------------------------------- bounds
NumReq == 2
MaxItems == 2
MaxQty == 2
NumProducts == 2
MaxStock == 3
MaxClock == 1

Req == 1..NumReq
\* Every request inserts at most one order, so these are all the order ids.
OrderIds == 1..NumReq
Products == 1..NumProducts

\* ------------------------------------------------------ the store's rows
\* The buyer known to the store: auth-system user id and internal profile id.
Profiles == {[id |-> 101, user_id |-> "uuid-a"]}
\* Strings that pass z.string().uuid(); "uuid-b" has no profile row.
UuidStrings == {"uuid-a", "uuid-b"}
PaymentMethodIds == {1}
Shippings == {0, 5}
Addresses == {[recipient_name |-> "Ana", address_line1 |-> "Jl. Mawar 1",
               address_line2 |-> "", city |-> "Bandung"]}

\* Tables the order flow only reads.
PaymentMethods == {[id |-> 1, name |-> "BCA Virtual Account"]}
ProductImages == {[product_id |-> 1, image_url |-> "serum.png", is_primary |-> TRUE],
                  [product_id |-> 1, image_url |-> "serum-back.png", is_primary |-> FALSE]}

\* What the storefront shows for a product: the name and unit price it sends.
ClientName(p) == IF p = 1 THEN "Serum" ELSE "Toner"
ClientPrice(p) == 10 * p

VARIABLES
    clock,        \* Date.now(), in milliseconds
    orders,       \* table orders: sequence of rows, id = position
    order_items,  \* table order_items: by order_id, the rows in insertion order
    payments,     \* table payments: by order_id, the rows in insertion order
    stock,        \* products.stock, by product id
    carts,        \* table carts: set of rows
    cart_items,   \* table cart_items: set of rows
    before,       \* history: the carts and cart items before any request
    req,          \* per POST request: position in the handler and its locals
    get,          \* the GET request: position in the handler and its locals
    add           \* per add-to-cart request: position in the handler and its locals

vars == <<clock, orders, order_items, payments, stock, carts, cart_items, before, req, get,
         add>>

\* ---------------------------------------------------------------- inputs
Item(p, q) == [id |-> p, name |-> ClientName(p), price |-> ClientPrice(p), quantity |-> q]
ValidItems == {Item(p, q) : p \in Products, q \in 1..MaxQty}

SeqsUpTo(S, n) == UNION {[1..k -> S] : k \in 0..n}

LineAmount(it) == it.price * it.quantity

RECURSIVE Subtotal(_)
Subtotal(items) ==
    IF items = <<>> THEN 0 ELSE LineAmount(Head(items)) + Subtotal(Tail(items))

Body(u, pm, items, ship) ==
    [user_id |-> u, address |-> CHOOSE a \in Addresses : TRUE,
     payment_method_id |-> pm, items |-> items,
     subtotal |-> Subtotal(items), shipping |-> ship, tax |-> 0,
     total |-> Subtotal(items) + ship]

\* Payloads that pass the schema.
ValidBodies ==
    {Body(u, pm, items, ship) :
        u \in UuidStrings, pm \in PaymentMethodIds,
        items \in SeqsUpTo(ValidItems, MaxItems), ship \in Shippings}

\* Payloads with one field out of the schema's range.
InvalidBodies ==
    {[b EXCEPT !.user_id = "not-a-uuid"] : b \in ValidBodies}
    \cup {[b EXCEPT !.payment_method_id = 0] : b \in ValidBodies}
    \cup {[b EXCEPT !.items[1].quantity = 0] : b \in {x \in ValidBodies : x.items # <<>>}}
    \cup {[b EXCEPT !.items[1].id = 0] : b \in {x \in ValidBodies : x.items # <<>>}}

Bodies == ValidBodies \cup InvalidBodies

\* ------------------------------------------------------- placeOrderSchema
ItemSchemaOk(it) == it.id > 0 /\ it.quantity > 0

\* Mutant: the schema without the checks of the line items.
PlaceOrderSchemaNoItemCheck(b) == b.user_id \in UuidStrings /\ b.payment_method_id > 0

PlaceOrderSchemaOk(b) ==
    /\ b.user_id \in UuidStrings
    /\ b.payment_method_id > 0
    /\ \A k \in 1..Len(b.items) : ItemSchemaOk(b.items[k])

\* ------------------------------------------------------------- the store
\* The message of a call that failed for a reason outside the flow.
FaultMessage == "fetch failed"

\* Mutant: .limit(1).single(), the first row when several match.
SingleFirst(rows, fault) ==
    IF fault THEN [data |-> {}, error |-> FaultMessage]
    ELSE IF rows # {} THEN [data |-> {CHOOSE x \in rows : TRUE}, error |-> ""]
    ELSE [data |-> {}, error |-> "PGRST116"]

\* .single(): the one row, or an error when the call failed or the rows are
\* not exactly one.
Single(rows, fault) ==
    IF fault THEN [data |-> {}, error |-> FaultMessage]
    ELSE IF Cardinality(rows) = 1 THEN [data |-> rows, error |-> ""]
    ELSE [data |-> {}, error |-> "PGRST116"]

\* if (error || !data)
NotFound(res) == res.error # "" \/ res.data = {}

TheRow(res) == CHOOSE x \in res.data : TRUE

\* Mutant: the lookup without its .eq("user_id", ...) filter.
SelectProfileUnfiltered(user_id) == Profiles

SelectProfile(user_id) == {p \in Profiles : p.user_id = user_id}

SelectCart(user_id) == {c \in carts : c.user_id = user_id}

\* Mutant: the clock is read in seconds.
OrderNumberSeconds(t) == <<"ORD", t \div 1000>>

\* "ORD" + Date.now()
OrderNumber(t) == <<"ORD", t>>

\* Mutant: the order stores the subtotal instead of the total.
OrderRowSubtotal(id, profile, b, t) ==
    [id |-> id, user_id |-> profile.id, order_number |-> OrderNumber(t),
     total_amount |-> b.subtotal, shipping |-> b.address]

OrderRow(id, profile, b, t) ==
    [id |-> id, user_id |-> profile.id, order_number |-> OrderNumber(t),
     total_amount |-> b.total, shipping |-> b.address]

\* Mutant: the row takes the product from a field the item does not have.
OrderItemRowNoProduct(order_id, it) ==
    [order_id |-> order_id, product_id |-> 0, quantity |-> it.quantity,
     price_per_item |-> it.price, product_name |-> it.name]

OrderItemRow(order_id, it) ==
    [order_id |-> order_id, product_id |-> it.id, quantity |-> it.quantity,
     price_per_item |-> it.price, product_name |-> it.name]

\* Mutant: the payment is inserted as already completed.
PaymentRowCompleted(order_id, b) ==
    [order_id |-> order_id, payment_method_id |-> b.payment_method_id,
     amount |-> b.total, status |-> "completed"]

\* Mutant: the payment is made out for the subtotal.
PaymentRowSubtotal(order_id, b) ==
    [order_id |-> order_id, payment_method_id |-> b.payment_method_id,
     amount |-> b.subtotal, status |-> "pending"]

PaymentRow(order_id, b) ==
    [order_id |-> order_id, payment_method_id |-> b.payment_method_id,
     amount |-> b.total, status |-> "pending"]

\* insert(row) into a table kept by order_id.
Inserted(table, row) == [table EXCEPT ![row.order_id] = Append(@, row)]

\* decrement_product_stock: decrement atomically, fail if the result would
\* be negative.
CanDecrement(st, p, q) == p \in DOMAIN st /\ st[p] - q >= 0
Decremented(st, p, q) == [st EXCEPT ![p] = st[p] - q]

\* stockError.message: the call failed, or the procedure refused.
StockError(fault) == IF fault THEN FaultMessage ELSE "insufficient stock"

\* Mutant: the decrement is called with 1 instead of the item's quantity.
StockArgsOne(it) == [product_id_input |-> it.id, quantity_input |-> 1]

\* Mutant: the two arguments of the rpc call are swapped.
StockArgsSwapped(it) == [product_id_input |-> it.quantity, quantity_input |-> it.id]

\* The arguments of the rpc call for a line item.
StockArgs(it) == [product_id_input |-> it.id, quantity_input |-> it.quantity]

\* Mutant: the loop stops one item early.
AfterItemOffByOne(items, k) == IF k + 1 < Len(items) THEN "item" ELSE "payment"

\* for (const item of items): where the handler goes after k items are done.
AfterItem(items, k) == IF k < Len(items) THEN "item" ELSE "payment"

\* Mutant: the cart row is kept, only its items are cleared.
CartsAfterDeleteKept(cart_id) == carts

\* Mutant: the delete filters on the row's id instead of its cart_id.
CartItemsAfterDeleteById(cart_id) == {ci \in cart_items : ci.product_id # cart_id}

\* Mutant: only the rows the cart had before the requests are deleted.
CartItemsAfterDeleteSnapshot(cart_id) ==
    {ci \in cart_items : ci.cart_id # cart_id \/ ci \notin before.cart_items}

CartItemsAfterDelete(cart_id) == {ci \in cart_items : ci.cart_id # cart_id}
CartsAfterDelete(cart_id) == {c \in carts : c.id # cart_id}

\* --------------------------------------------------------------- requests
NoResp == [status |-> 0, error |-> "", details |-> "", order_id |-> 0]
Error(status, error) == [status |-> status, error |-> error, details |-> "", order_id |-> 0]
Success(order_id) == [status |-> 200, error |-> "", details |-> "", order_id |-> order_id]

\* details: xError?.message, the message of the store's error.
Detailed(resp, message) == [resp EXCEPT !.details = message]

\* The handler's responses, by the place that returns them.
InvalidData == Error(400, "Invalid data format")
ProfileNotFound == Error(404, "User profile not found")
OrderFailed == Error(500, "Failed to create order")
OrderItemFailed == Error(500, "Failed to create order item")
StockFailed == Error(500, "Failed to update product stock")
PaymentFailed == Error(500, "Failed to create payment")
CartNotFoundAs500 == Error(500, "Cart not found for user")
CartNotFound == Error(404, "Cart not found for user")
DeleteItemsFailed == Error(500, "Failed to delete cart items")
DeleteCartFailed == Error(500, "Failed to delete cart")

\* Mutant: the exception is rethrown and the request gets no response.
ThrownUncaught == NoResp

\* catch (err): the response to anything thrown inside the handler.
Thrown == Error(500, "Something went wrong!")

Idle ==
    [pc |-> "idle", body |-> Body("uuid-a", 1, <<>>, 0), profile |-> 0, order |-> 0,
     i |-> 0, cart |-> 0, resp |-> NoResp, ops |-> <<>>]

Op(name, k, ok) == [op |-> name, item |-> k, ok |-> ok]

Issue(r, name, k, ok) == Append(req[r].ops, Op(name, k, ok))

Respond(r, resp, ops) == [req EXCEPT ![r].pc = "done", ![r].resp = resp, ![r].ops = ops]

\* Mutant: the payment error is logged and the handler goes on to stage 5.
OnPaymentErrorContinue(r, ops) == [req EXCEPT ![r].pc = "cart", ![r].ops = ops]

\* Mutant: the payment insert is tried again after an error.
OnPaymentErrorRetry(r, ops) == [req EXCEPT ![r].ops = ops]

\* if (paymentError) return the 500 response
OnPaymentError(r, ops) == Respond(r, Detailed(PaymentFailed, FaultMessage), ops)

\* GET's request state; after is history: the checkouts that had responded
\* 200 when the GET was received.
GetIdle ==
    [pc |-> "idle", orderNumber |-> OrderNumber(0), order |-> {}, payment |-> {},
     paymentMethodName |-> "Unknown", items |-> <<>>,
     resp |-> [status |-> 0, error |-> "", details |-> "", body |-> <<>>], ops |-> <<>>,
     after |-> {}]

GetIssue(name, ok) == Append(get.ops, Op(name, 0, ok))

GetRespond(status, error, details, body, ops) ==
    [get EXCEPT !.pc = "done", !.ops = ops,
                !.resp = [status |-> status, error |-> error, details |-> details,
                          body |-> body]]

\* Number(order.total_amount): the numeric column arrives as a JSON number.
ToNumber(x) == x

\* [line1, line2].filter(Boolean): the lines that are present.
AddressLines(o) ==
    LET Present(x) == x # "" IN
    SelectSeq(<<o.shipping.address_line1, o.shipping.address_line2>>, Present)

\* Mutant: find() compares with item.id, a column the rows read do not have.
ImageOfWrongKey(images, product_id) == ""

\* image?.image_url || ""
ImageOf(images, product_id) ==
    IF \E img \in images : img.product_id = product_id
      THEN (CHOOSE img \in images : img.product_id = product_id).image_url
      ELSE ""

FormattedItems(items, images) ==
    [k \in 1..Len(items) |->
        [name |-> items[k].product_name, quantity |-> items[k].quantity,
         price |-> items[k].price_per_item, image |-> ImageOf(images, items[k].product_id)]]

Receipt(o, paymentMethodName, items, images) ==
    [orderNumber |-> o.order_number,
     totalAmount |-> ToNumber(o.total_amount),
     paymentMethod |-> paymentMethodName,
     items |-> FormattedItems(items, images),
     shippingAddress |-> [name |-> o.shipping.recipient_name, address |-> AddressLines(o),
                          city |-> o.shipping.city],
     estimatedDelivery |-> "3-5 business days"]

\* Mutant: the lookup without its .eq("order_number", ...) filter.
SelectOrderUnfiltered(orderNumber) == {orders[k] : k \in 1..Len(orders)}

\* orders.select(...).eq("order_number", orderNumber)
SelectOrder(orderNumber) ==
    {orders[k] : k \in {j \in 1..Len(orders) : orders[j].order_number = orderNumber}}

\* payments.select(...).eq("order_id", order.id)
SelectPayment(order_id) == {payments[order_id][k] : k \in 1..Len(payments[order_id])}

\* payment_methods.select("name").eq("id", payment.payment_method_id)
SelectPaymentMethod(id) == {m \in PaymentMethods : m.id = id}

\* order_items.select(...).eq("order_id", order.id)
SelectOrderItems(order_id) == order_items[order_id]

\* product_images.select(...).in("product_id", productIds).eq("is_primary", true)
SelectImages(productIds) ==
    {img \in ProductImages : img.product_id \in productIds /\ img.is_primary}

\* ------------------------------------------------------- POST /api/cart
\* The add-to-cart requests in flight.
AddReq == {1, 2}

\* Products the storefront can name; the last one is not in the catalogue.
AddProductIds == 1..(NumProducts + 1)
AddBodies ==
    {[user_id |-> "uuid-a", product_id |-> p, quantity |-> q] :
        p \in AddProductIds, q \in {0, MaxQty + 1}}

\* cartItemSchema
CartItemSchemaOk(b) == b.user_id \in UuidStrings /\ b.product_id > 0 /\ b.quantity > 0

AddNoResp == [status |-> 0, error |-> "", item |-> {}]
AddError(status, error) == [status |-> status, error |-> error, item |-> {}]
AddCreated(row) == [status |-> 201, error |-> "", item |-> {row}]

\* at is history: where each checkout stood when the request wrote its row.
AddIdle == [pc |-> "idle", body |-> {}, cart |-> 0, resp |-> AddNoResp, at |-> <<>>]

AddRespond(a, resp) == [add EXCEPT ![a].pc = "done", ![a].resp = resp]

\* The id the store gives the cart row that request a inserts.
NewCartId(a) == 20 + a

\* Mutant: the row keyed by the product alone.
CartItemsAfterUpsertAnyCart(row) ==
    {ci \in cart_items : ci.product_id # row.product_id} \cup {row}

\* upsert(..., { onConflict: "cart_id,product_id" }): the row replaces the one
\* of the same cart and product.
CartItemsAfterUpsert(row) ==
    {ci \in cart_items : ~(ci.cart_id = row.cart_id /\ ci.product_id = row.product_id)}
    \cup {row}

\* ------------------------------------------------------------------ Init
InitStock == [p \in Products |-> MaxStock]
InitCarts == {{}, {[id |-> 11, user_id |-> "uuid-a"]}}
InitCartItems(cs) ==
    IF cs = {} THEN {{}}
    ELSE {{}, {[cart_id |-> 11, product_id |-> 1, quantity |-> 1]},
          {[cart_id |-> 11, product_id |-> 1, quantity |-> 1],
           [cart_id |-> 11, product_id |-> 2, quantity |-> 2]}}

Init ==
    /\ clock = 0
    /\ orders = <<>>
    /\ order_items = [o \in OrderIds |-> <<>>]
    /\ payments = [o \in OrderIds |-> <<>>]
    /\ stock = InitStock
    /\ carts \in InitCarts
    /\ cart_items \in InitCartItems(carts)
    /\ before = [carts |-> carts, cart_items |-> cart_items]
    /\ req = [r \in Req |-> Idle]
    /\ get = GetIdle
    /\ add = [a \in AddReq |-> AddIdle]

\* ------------------------------------------------------ POST /api/orders
\* Every awaited store call is one action.  Its parameter fault says that the
\* call fails for a reason outside the flow (network, store); a call that
\* fails changes nothing in the store.
\* request.json(), safeParse, destructuring.
Receive(r, b) ==
    /\ req[r].pc = "idle"
    /\ req' = IF PlaceOrderSchemaOk(b)
                THEN [req EXCEPT ![r].pc = "profile", ![r].body = b]
                ELSE [req EXCEPT ![r].pc = "done", ![r].body = b, ![r].resp = InvalidData]
    /\ UNCHANGED <<clock, orders, order_items, payments, stock, carts, cart_items, before, get, add>>

\* 1. profiles.select("id").eq("user_id", user_id).single()
ResolveProfile(r, fault) ==
    /\ req[r].pc = "profile"
    /\ LET res == Single(SelectProfile(req[r].body.user_id), fault)
           ops == Issue(r, "profiles.select", 0, res.error = "")
       IN  req' = IF NotFound(res)
                    THEN Respond(r, Detailed(ProfileNotFound, res.error), ops)
                    ELSE [req EXCEPT ![r].pc = "order", ![r].profile = TheRow(res).id,
                                     ![r].ops = ops]
    /\ UNCHANGED <<clock, orders, order_items, payments, stock, carts, cart_items, before, get, add>>

\* 2. orders.insert({...}).select("id").single()
InsertOrder(r, fault) ==
    /\ req[r].pc = "order"
    /\ LET id == Len(orders) + 1
           row == OrderRow(id, [id |-> req[r].profile], req[r].body, clock)
           ops == Issue(r, "orders.insert", 0, ~fault)
       IN  IF fault
             THEN /\ req' = Respond(r, Detailed(OrderFailed, FaultMessage), ops)
                  /\ UNCHANGED orders
             ELSE /\ orders' = Append(orders, row)
                  /\ req' = [req EXCEPT ![r].pc = AfterItem(req[r].body.items, 0),
                                        ![r].order = id, ![r].i = 1, ![r].ops = ops]
    /\ UNCHANGED <<clock, order_items, payments, stock, carts, cart_items, before, get, add>>

\* Mutant: the loop goes on to the next item without calling the decrement.
InsertOrderItemSkipsDecrement(r, fault) ==
    /\ req[r].pc = "item"
    /\ LET it == req[r].body.items[req[r].i]
           ops == Issue(r, "order_items.insert", req[r].i, ~fault)
       IN  IF fault
             THEN /\ req' = Respond(r, Detailed(OrderItemFailed, FaultMessage), ops)
                  /\ UNCHANGED order_items
             ELSE /\ order_items' = Inserted(order_items, OrderItemRow(req[r].order, it))
                  /\ req' = [req EXCEPT ![r].pc = AfterItem(req[r].body.items, req[r].i),
                                        ![r].i = req[r].i + 1, ![r].ops = ops]
    /\ UNCHANGED <<clock, orders, payments, stock, carts, cart_items, before, get, add>>

\* Mutant: the insert's error is not tested and the decrement is called.
InsertOrderItemUnchecked(r, fault) ==
    /\ req[r].pc = "item"
    /\ LET it == req[r].body.items[req[r].i]
           ops == Issue(r, "order_items.insert", req[r].i, ~fault)
       IN  /\ order_items' = IF fault THEN order_items
                             ELSE Inserted(order_items, OrderItemRow(req[r].order, it))
           /\ req' = [req EXCEPT ![r].pc = "stock", ![r].ops = ops]
    /\ UNCHANGED <<clock, orders, payments, stock, carts, cart_items, before, get, add>>

\* 3a. order_items.insert({...}) for the item at position i
InsertOrderItem(r, fault) ==
    /\ req[r].pc = "item"
    /\ LET it == req[r].body.items[req[r].i]
           ops == Issue(r, "order_items.insert", req[r].i, ~fault)
       IN  IF fault
             THEN /\ req' = Respond(r, Detailed(OrderItemFailed, FaultMessage), ops)
                  /\ UNCHANGED order_items
             ELSE /\ order_items' = Inserted(order_items, OrderItemRow(req[r].order, it))
                  /\ req' = [req EXCEPT ![r].pc = "stock", ![r].ops = ops]
    /\ UNCHANGED <<clock, orders, payments, stock, carts, cart_items, before, get, add>>

\* Mutant: the handler writes back a stock computed from the value it read
\* when the request began, instead of calling the atomic decrement.
DecrementStockReadWrite(r, fault) ==
    /\ req[r].pc = "stock"
    /\ LET it == req[r].body.items[req[r].i]
           p == StockArgs(it).product_id_input
           q == StockArgs(it).quantity_input
           ok == ~fault /\ CanDecrement(InitStock, p, q)
           ops == Issue(r, "rpc.decrement_product_stock", req[r].i, ok)
       IN  IF ~ok
             THEN /\ req' = Respond(r, Detailed(StockFailed, StockError(fault)), ops)
                  /\ UNCHANGED stock
             ELSE /\ stock' = [stock EXCEPT ![p] = InitStock[p] - q]
                  /\ req' = [req EXCEPT ![r].pc = AfterItem(req[r].body.items, req[r].i),
                                        ![r].i = req[r].i + 1, ![r].ops = ops]
    /\ UNCHANGED <<clock, orders, order_items, payments, carts, cart_items, before, get, add>>

\* Mutant: the decrement's error is not tested and the loop goes on.
DecrementStockUnchecked(r, fault) ==
    /\ req[r].pc = "stock"
    /\ LET it == req[r].body.items[req[r].i]
           p == StockArgs(it).product_id_input
           q == StockArgs(it).quantity_input
           ok == ~fault /\ CanDecrement(stock, p, q)
           ops == Issue(r, "rpc.decrement_product_stock", req[r].i, ok)
       IN  /\ stock' = IF ok THEN Decremented(stock, p, q) ELSE stock
           /\ req' = [req EXCEPT ![r].pc = AfterItem(req[r].body.items, req[r].i),
                                 ![r].i = req[r].i + 1, ![r].ops = ops]
    /\ UNCHANGED <<clock, orders, order_items, payments, carts, cart_items, before, get, add>>

\* 3b. rpc("decrement_product_stock", {product_id_input, quantity_input})
DecrementStock(r, fault) ==
    /\ req[r].pc = "stock"
    /\ LET it == req[r].body.items[req[r].i]
           p == StockArgs(it).product_id_input
           q == StockArgs(it).quantity_input
           ok == ~fault /\ CanDecrement(stock, p, q)
           ops == Issue(r, "rpc.decrement_product_stock", req[r].i, ok)
       IN  IF ~ok
             THEN /\ req' = Respond(r, Detailed(StockFailed, StockError(fault)), ops)
                  /\ UNCHANGED stock
             ELSE /\ stock' = Decremented(stock, p, q)
                  /\ req' = [req EXCEPT ![r].pc = AfterItem(req[r].body.items, req[r].i),
                                        ![r].i = req[r].i + 1, ![r].ops = ops]
    /\ UNCHANGED <<clock, orders, order_items, payments, carts, cart_items, before, get, add>>

\* Mutant: a failed payment insert is compensated by deleting the order row.
InsertPaymentRollback(r, fault) ==
    /\ req[r].pc = "payment"
    /\ LET ops == Issue(r, "payments.insert", 0, ~fault)
           Kept(o) == o.id # req[r].order
       IN  IF fault
             THEN /\ req' = OnPaymentError(r, ops)
                  /\ orders' = SelectSeq(orders, Kept)
                  /\ UNCHANGED payments
             ELSE /\ payments' = Inserted(payments, PaymentRow(req[r].order, req[r].body))
                  /\ req' = [req EXCEPT ![r].pc = "cart", ![r].ops = ops]
                  /\ UNCHANGED orders
    /\ UNCHANGED <<clock, order_items, stock, carts, cart_items, before, get, add>>

\* 4. payments.insert({...})
InsertPayment(r, fault) ==
    /\ req[r].pc = "payment"
    /\ LET ops == Issue(r, "payments.insert", 0, ~fault)
       IN  IF fault
             THEN /\ req' = OnPaymentError(r, ops)
                  /\ UNCHANGED payments
             ELSE /\ payments' = Inserted(payments, PaymentRow(req[r].order, req[r].body))
                  /\ req' = [req EXCEPT ![r].pc = "cart", ![r].ops = ops]
    /\ UNCHANGED <<clock, orders, order_items, stock, carts, cart_items, before, get, add>>

\* 5a. carts.select("id").eq("user_id", user_id).single()
FetchCart(r, fault) ==
    /\ req[r].pc = "cart"
    /\ LET res == Single(SelectCart(req[r].body.user_id), fault)
           ops == Issue(r, "carts.select", 0, res.error = "")
       IN  req' = IF NotFound(res)
                    THEN Respond(r, Detailed(CartNotFound, res.error), ops)
                    ELSE [req EXCEPT ![r].pc = "delitems", ![r].cart = TheRow(res).id,
                                     ![r].ops = ops]
    /\ UNCHANGED <<clock, orders, order_items, payments, stock, carts, cart_items, before, get, add>>

\* 5b. cart_items.delete().eq("cart_id", cart.id)
DeleteCartItems(r, fault) ==
    /\ req[r].pc = "delitems"
    /\ LET ops == Issue(r, "cart_items.delete", 0, ~fault)
       IN  IF fault
             THEN /\ req' = Respond(r, Detailed(DeleteItemsFailed, FaultMessage), ops)
                  /\ UNCHANGED cart_items
             ELSE /\ cart_items' = CartItemsAfterDelete(req[r].cart)
                  /\ req' = [req EXCEPT ![r].pc = "delcart", ![r].ops = ops]
    /\ UNCHANGED <<clock, orders, order_items, payments, stock, carts, before, get, add>>

\* 5c. carts.delete().eq("id", cart.id), then the 200 response
DeleteCart(r, fault) ==
    /\ req[r].pc = "delcart"
    /\ LET ops == Issue(r, "carts.delete", 0, ~fault)
       IN  IF fault
             THEN /\ req' = Respond(r, Detailed(DeleteCartFailed, FaultMessage), ops)
                  /\ UNCHANGED carts
             ELSE /\ carts' = CartsAfterDelete(req[r].cart)
                  /\ req' = Respond(r, Success(req[r].order), ops)
    /\ UNCHANGED <<clock, orders, order_items, payments, stock, cart_items, before, get, add>>

\* The store call the handler is waiting on.
CallAt(r) ==
    CASE req[r].pc = "profile" -> "profiles.select"
      [] req[r].pc = "order" -> "orders.insert"
      [] req[r].pc = "item" -> "order_items.insert"
      [] req[r].pc = "stock" -> "rpc.decrement_product_stock"
      [] req[r].pc = "payment" -> "payments.insert"
      [] req[r].pc = "cart" -> "carts.select"
      [] req[r].pc = "delitems" -> "cart_items.delete"
      [] req[r].pc = "delcart" -> "carts.delete"

Awaiting(r) == req[r].pc \notin {"idle", "done"}

\* request.json() throws on a body that is not JSON: the catch answers 500.
ReceiveUnparseable(r) ==
    /\ req[r].pc = "idle"
    /\ req' = [req EXCEPT ![r].pc = "done",
                          ![r].resp = Detailed(Thrown, "Unexpected token")]
    /\ UNCHANGED <<clock, orders, order_items, payments, stock, carts, cart_items, before, get, add>>

\* The awaited store call throws instead of returning: the catch answers 500
\* and the store is as the call found it.
Throw(r) ==
    /\ Awaiting(r)
    /\ LET k == IF req[r].pc \in {"item", "stock"} THEN req[r].i ELSE 0
           ops == Issue(r, CallAt(r), k, FALSE)
       IN  req' = Respond(r, Detailed(Thrown, FaultMessage), ops)
    /\ UNCHANGED <<clock, orders, order_items, payments, stock, carts, cart_items, before, get, add>>

\* One step of the handler past the body's validation.
Stage(r, fault) ==
    \/ ResolveProfile(r, fault)
    \/ InsertOrder(r, fault)
    \/ InsertOrderItem(r, fault)
    \/ DecrementStock(r, fault)
    \/ InsertPayment(r, fault)
    \/ FetchCart(r, fault)
    \/ DeleteCartItems(r, fault)
    \/ DeleteCart(r, fault)

\* ------------------------------------------- GET /api/orders/{orderNumber}
\* await params, orderSchema.safeParse: every path token is a string.
GetReceive(n) ==
    /\ get.pc = "idle"
    /\ get' = [get EXCEPT !.pc = "order", !.orderNumber = n,
                           !.after = {r \in Req : req[r].resp.status = 200}]
    /\ UNCHANGED <<clock, orders, order_items, payments, stock, carts, cart_items, before, req, add>>

\* Get order details
GetOrder(fault) ==
    /\ get.pc = "order"
    /\ LET res == Single(SelectOrder(get.orderNumber), fault)
           ops == GetIssue("orders.select", res.error = "")
       IN  get' = IF NotFound(res)
                    THEN GetRespond(404, "Order not found", res.error, <<>>, ops)
                    ELSE [get EXCEPT !.pc = "payment", !.order = res.data, !.ops = ops]
    /\ UNCHANGED <<clock, orders, order_items, payments, stock, carts, cart_items, before, req, add>>

\* Mutant: a payment lookup that returns an error ends the read with 500.
GetPaymentStrict(fault) ==
    /\ get.pc = "payment"
    /\ LET o == CHOOSE x \in get.order : TRUE
           res == Single(SelectPayment(o.id), fault)
           ops == GetIssue("payments.select", res.error = "")
       IN  get' = IF res.error # ""
                    THEN GetRespond(500, "Failed to fetch payment", res.error, <<>>, ops)
                    ELSE [get EXCEPT !.pc = "method", !.payment = res.data, !.ops = ops]
    /\ UNCHANGED <<clock, orders, order_items, payments, stock, carts, cart_items, before, req, add>>

\* Get payment information: an error is logged and the read goes on.
GetPayment(fault) ==
    /\ get.pc = "payment"
    /\ LET o == CHOOSE x \in get.order : TRUE
           res == Single(SelectPayment(o.id), fault)
           ops == GetIssue("payments.select", res.error = "")
       IN  get' = [get EXCEPT !.pc = IF res.data # {} THEN "method" ELSE "items",
                              !.payment = res.data, !.ops = ops]
    /\ UNCHANGED <<clock, orders, order_items, payments, stock, carts, cart_items, before, req, add>>

\* Get payment method name separately
GetPaymentMethod(fault) ==
    /\ get.pc = "method"
    /\ LET pay == CHOOSE x \in get.payment : TRUE
           res == Single(SelectPaymentMethod(pay.payment_method_id), fault)
           ops == GetIssue("payment_methods.select", res.error = "")
       IN  get' = [get EXCEPT !.pc = "items", !.ops = ops,
                              !.paymentMethodName =
                                  IF res.data # {} THEN TheRow(res).name ELSE "Unknown"]
    /\ UNCHANGED <<clock, orders, order_items, payments, stock, carts, cart_items, before, req, add>>

\* Get order items
GetItems(fault) ==
    /\ get.pc = "items"
    /\ LET o == CHOOSE x \in get.order : TRUE
           ops == GetIssue("order_items.select", ~fault)
       IN  get' = IF fault
                    THEN GetRespond(500, "Failed to fetch order items", FaultMessage, <<>>, ops)
                    ELSE [get EXCEPT !.pc = "images", !.items = SelectOrderItems(o.id),
                                     !.ops = ops]
    /\ UNCHANGED <<clock, orders, order_items, payments, stock, carts, cart_items, before, req, add>>

\* Get product images, then the 200 response
GetImages(fault) ==
    /\ get.pc = "images"
    /\ LET o == CHOOSE x \in get.order : TRUE
           productIds == {get.items[k].product_id : k \in 1..Len(get.items)}
           ops == GetIssue("product_images.select", ~fault)
       IN  get' = IF fault
                    THEN GetRespond(500, "Failed to fetch product images", FaultMessage, <<>>, ops)
                    ELSE GetRespond(200, "", "",
                            <<Receipt(o, get.paymentMethodName, get.items,
                                      SelectImages(productIds))>>, ops)
    /\ UNCHANGED <<clock, orders, order_items, payments, stock, carts, cart_items, before, req, add>>

GetStage(fault) ==
    \/ GetOrder(fault)
    \/ GetPayment(fault)
    \/ GetPaymentMethod(fault)
    \/ GetItems(fault)
    \/ GetImages(fault)

\* ------------------------------------------- POST /api/cart (add to cart)
\* request.json(), safeParse, destructuring.
AddReceive(a, b) ==
    /\ add[a].pc = "idle"
    /\ add' = IF CartItemSchemaOk(b)
                THEN [add EXCEPT ![a].pc = "profile", ![a].body = b]
                ELSE [add EXCEPT ![a].pc = "done", ![a].body = b,
                                 ![a].resp = AddError(400, "Invalid data format")]
    /\ UNCHANGED <<clock, orders, order_items, payments, stock, carts, cart_items, before, req, get>>

\* profiles.select("id").eq("user_id", user_id).single()
AddResolveProfile(a, fault) ==
    /\ add[a].pc = "profile"
    /\ LET res == Single(SelectProfile(add[a].body.user_id), fault)
       IN  add' = IF NotFound(res)
                    THEN AddRespond(a, AddError(404, "User not found"))
                    ELSE [add EXCEPT ![a].pc = "product"]
    /\ UNCHANGED <<clock, orders, order_items, payments, stock, carts, cart_items, before, req, get>>

\* products.select("id").eq("id", product_id).single()
AddFindProduct(a, fault) ==
    /\ add[a].pc = "product"
    /\ LET res == Single({p \in Products : p = add[a].body.product_id}, fault)
       IN  add' = IF NotFound(res)
                    THEN AddRespond(a, AddError(404, "Product not found"))
                    ELSE [add EXCEPT ![a].pc = "cart"]
    /\ UNCHANGED <<clock, orders, order_items, payments, stock, carts, cart_items, before, req, get>>

\* Mutant: the lookup takes the first cart when the buyer has several.
AddSelectCartFirst(a, fault) ==
    /\ add[a].pc = "cart"
    /\ LET res == SingleFirst(SelectCart(add[a].body.user_id), fault)
       IN  add' = IF res.error \notin {"", "PGRST116"}
                    THEN AddRespond(a, AddError(500, "Error checking cart"))
                    ELSE IF res.data # {}
                    THEN [add EXCEPT ![a].pc = "upsert", ![a].cart = TheRow(res).id]
                    ELSE [add EXCEPT ![a].pc = "newcart"]
    /\ UNCHANGED <<clock, orders, order_items, payments, stock, carts, cart_items, before, req, get>>

\* carts.select("id").eq("user_id", user_id).single(); the error of a lookup
\* that matched no single row (PGRST116) is let through.
AddSelectCart(a, fault) ==
    /\ add[a].pc = "cart"
    /\ LET res == Single(SelectCart(add[a].body.user_id), fault)
       IN  add' = IF res.error \notin {"", "PGRST116"}
                    THEN AddRespond(a, AddError(500, "Error checking cart"))
                    ELSE IF res.data # {}
                    THEN [add EXCEPT ![a].pc = "upsert", ![a].cart = TheRow(res).id]
                    ELSE [add EXCEPT ![a].pc = "newcart"]
    /\ UNCHANGED <<clock, orders, order_items, payments, stock, carts, cart_items, before, req, get>>

\* carts.insert({ user_id }).select().single(); an error is thrown to the
\* catch.
AddInsertCart(a, fault) ==
    /\ add[a].pc = "newcart"
    /\ IF fault
         THEN /\ add' = AddRespond(a, AddError(500, "Something went wrong!"))
              /\ UNCHANGED carts
         ELSE /\ carts' = carts \cup {[id |-> NewCartId(a), user_id |-> add[a].body.user_id]}
              /\ add' = [add EXCEPT ![a].pc = "upsert", ![a].cart = NewCartId(a)]
    /\ UNCHANGED <<clock, orders, order_items, payments, stock, cart_items, before, req, get>>

\* The row the request puts in the cart.
CartItemRow(a) ==
    [cart_id |-> add[a].cart, product_id |-> add[a].body.product_id,
     quantity |-> add[a].body.quantity]

\* cart_items.upsert(...).select().single(), then the 201 response
AddUpsertItem(a, fault) ==
    /\ add[a].pc = "upsert"
    /\ IF fault
         THEN /\ add' = AddRespond(a, AddError(500, "Failed to add item to cart"))
              /\ UNCHANGED cart_items
         ELSE /\ cart_items' = CartItemsAfterUpsert(CartItemRow(a))
              /\ add' = [AddRespond(a, AddCreated(CartItemRow(a)))
                           EXCEPT ![a].at = [r \in Req |-> req[r].pc]]
    /\ UNCHANGED <<clock, orders, order_items, payments, stock, carts, before, req, get>>

\* One step of the add-to-cart handler past the body's validation.
AddStage(a, fault) ==
    \/ AddResolveProfile(a, fault)
    \/ AddFindProduct(a, fault)
    \/ AddSelectCart(a, fault)
    \/ AddInsertCart(a, fault)
    \/ AddUpsertItem(a, fault)

OrderNumbers == {OrderNumber(t) : t \in 0..MaxClock}

\* Date.now() advances.
Tick ==
    /\ clock < MaxClock
    /\ clock' = clock + 1
    /\ UNCHANGED <<orders, order_items, payments, stock, carts, cart_items, before, req, get, add>>

\* One checkout, any payload, every store call may fail.
Checkout ==
    /\ \A r \in Req : req[r].pc = "idle"
    /\ \E b \in Bodies : Receive(1, b)

Next ==
    \/ Checkout
    \/ \E fault \in BOOLEAN : Stage(1, fault)
    \/ Tick

Spec == Init /\ [][Next]_vars

\* The checkouts of concurrent requests: two line-item lists that contend for
\* product 1.
ConcItems == {<<Item(1, MaxQty)>>, <<Item(1, 1), Item(NumProducts, 1)>>}
ConcBodies ==
    {b \in ValidBodies : b.user_id = "uuid-a" /\ b.shipping = 0 /\ b.items \in ConcItems}

\* Concurrent checkouts and a read, interleaved at every await; the buyer
\* starts with a cart.  No store call fails for a reason outside the flow: a
\* call fails only when the store's state makes it fail.
\* Requests take the slots in order (the slots are interchangeable).
NextSlot(r) == \A q \in Req : q < r => req[q].pc # "idle"

InitConc ==
    /\ Init
    /\ carts # {}
    /\ Cardinality(cart_items) = 1

NextConc ==
    \/ \E r \in Req : \E b \in ConcBodies : NextSlot(r) /\ Receive(r, b)
    \/ \E r \in Req : Stage(r, FALSE)
    \/ \E n \in OrderNumbers : GetReceive(n)
    \/ GetStage(FALSE)
    \/ Tick

SpecConc == InitConc /\ [][NextConc]_vars

\* One checkout and one read, interleaved at every await; every store call of
\* either may fail for a reason outside the flow.
ReadBodies == {b \in ValidBodies : b.shipping = 0 /\ b.items \in ConcItems}

NextRead ==
    \/ \E b \in ReadBodies : Receive(1, b)
    \/ \E fault \in BOOLEAN : Stage(1, fault)
    \/ \E n \in OrderNumbers : GetReceive(n)
    \/ \E fault \in BOOLEAN : GetStage(fault)
    \/ Tick

SpecRead == Init /\ [][NextRead]_vars

\* Concurrent checkouts alone, interleaved at every await, every store call
\* may fail for a reason outside the flow.
NextPosts ==
    \/ \E r \in Req : \E b \in ConcBodies : NextSlot(r) /\ Receive(r, b)
    \/ \E r \in Req : \E fault \in BOOLEAN : Stage(r, fault)
    \/ Tick

SpecPosts == InitConc /\ [][NextPosts]_vars

\* Two concurrent checkouts alone, interleaved at every await, every store
\* call may fail for a reason outside the flow.
NextPostsTwo ==
    \/ \E r \in {1, 2} : \E b \in ConcBodies : NextSlot(r) /\ Receive(r, b)
    \/ \E r \in {1, 2} : \E fault \in BOOLEAN : Stage(r, fault)
    \/ Tick

SpecPostsTwo == InitConc /\ [][NextPostsTwo]_vars

\* Add-to-cart requests of the buyer and one checkout, interleaved at every
\* await.  A store call of an add-to-cart request may fail for a reason
\* outside the flow; the checkout's calls fail only when the store's state
\* makes them fail.
NextCart ==
    \/ \E a \in AddReq : \E b \in AddBodies : AddReceive(a, b)
    \/ \E a \in AddReq : \E fault \in BOOLEAN : AddStage(a, fault)
    \/ \E b \in ConcBodies : Receive(1, b)
    \/ Stage(1, FALSE)

SpecCart == Init /\ [][NextCart]_vars

\* One checkout whose body may be valid, outside the schema or not JSON at
\* all, and whose store calls may return an error or throw.  Every store call
\* eventually returns or throws: a handler that waits on a call takes its
\* next step.
LiveBodies ==
    ReadBodies
    \cup {[b EXCEPT !.items[1].quantity = 0] : b \in ReadBodies}
    \cup {b \in ValidBodies : b.items = <<>> /\ b.shipping = 0}

Step(r) ==
    \/ \E fault \in BOOLEAN : Stage(r, fault)
    \/ Throw(r)

NextLive ==
    \/ \E b \in LiveBodies : Receive(1, b)
    \/ ReceiveUnparseable(1)
    \/ Step(1)
    \/ Tick

SpecLive == Init /\ [][NextLive]_vars /\ WF_vars(Step(1))

\* Two concurrent checkouts and a read, interleaved at every await; no store
\* call fails for a reason outside the flow.
NextPair ==
    \/ \E r \in {1, 2} : \E b \in ConcBodies : NextSlot(r) /\ Receive(r, b)
    \/ \E r \in {1, 2} : Stage(r, FALSE)
    \/ \E n \in OrderNumbers : GetReceive(n)
    \/ GetStage(FALSE)
    \/ Tick

SpecPair == InitConc /\ [][NextPair]_vars

\* A checkout, and the same payload submitted again once it has responded 200;
\* no cart is created in between and no store call fails for a reason outside
\* the flow.
AgainBodies == {b \in ValidBodies : b.user_id = "uuid-a" /\ b.shipping = 0}

Resubmit ==
    /\ req[1].pc = "done" /\ req[1].resp.status = 200
    /\ Receive(2, req[1].body)

NextAgain ==
    \/ \E b \in AgainBodies : req[2].pc = "idle" /\ Receive(1, b)
    \/ Resubmit
    \/ \E r \in {1, 2} : Stage(r, FALSE)
    \/ Tick

SpecAgain == Init /\ [][NextAgain]_vars
\* ================================================================ claims
Done(r) == req[r].pc = "done"
Started(r) == req[r].pc # "idle"
Status(r) == req[r].resp.status

\* The sub-sequence of a table (or history) whose rows satisfy a field test.
ItemRowsOf(order_id) == IF order_id \in OrderIds THEN order_items[order_id] ELSE <<>>
PaymentRowsOf(order_id) == IF order_id \in OrderIds THEN payments[order_id] ELSE <<>>
RECURSIVE RowCount(_, _)
RowCount(table, ids) ==
    IF ids = {} THEN 0
    ELSE LET o == CHOOSE x \in ids : TRUE IN Len(table[o]) + RowCount(table, ids \ {o})
OrderRowsOf(order_id) ==
    LET T(x) == x.id = order_id IN SelectSeq(orders, T)
\* The decrement calls of request r that succeeded, from its log.
DecsOf(r) ==
    LET T(x) == x.op = "rpc.decrement_product_stock" /\ x.ok
        done == SelectSeq(req[r].ops, T)
    IN  [k \in 1..Len(done) |->
            [item |-> done[k].item,
             product_id |-> req[r].body.items[done[k].item].id]]
OpsNamed(r, name) ==
    LET T(x) == x.op = name IN SelectSeq(req[r].ops, T)

\* The rows and decrements the first k line items of a payload call for.
ExpectedItemRows(order_id, items, k) ==
    [j \in 1..k |->
        [order_id |-> order_id, product_id |-> items[j].id, quantity |-> items[j].quantity,
         price_per_item |-> items[j].price, product_name |-> items[j].name]]
ExpectedDecs(r, items, k) == [j \in 1..k |-> [item |-> j, product_id |-> items[j].id]]

\* The store is as it was before the checkout: nothing written, nothing
\* decremented, nothing deleted.
StoreAsReceived(r) ==
    /\ orders = <<>>
    /\ RowCount(order_items, OrderIds) = 0
    /\ RowCount(payments, OrderIds) = 0
    /\ stock = InitStock
    /\ carts = before.carts
    /\ cart_items = before.cart_items
    /\ DecsOf(r) = <<>>

CartAsReceived(r) ==
    /\ carts = before.carts
    /\ cart_items = before.cart_items
    /\ OpsNamed(r, "carts.select") = <<>>
    /\ OpsNamed(r, "cart_items.delete") = <<>>
    /\ OpsNamed(r, "carts.delete") = <<>>

\* The quantity a payload orders of product p, and what its rows add up to.
RECURSIVE QtyOrdered(_, _)
QtyOrdered(items, p) ==
    IF items = <<>> THEN 0
    ELSE (IF Head(items).id = p THEN Head(items).quantity ELSE 0)
         + QtyOrdered(Tail(items), p)

RECURSIVE RowsAmount(_)
RowsAmount(rows) ==
    IF rows = <<>> THEN 0
    ELSE Head(rows).price_per_item * Head(rows).quantity + RowsAmount(Tail(rows))

HasProfile(user_id) == \E p \in Profiles : p.user_id = user_id

\* The body is outside the schema: a field that is not a uuid, not positive.
OutsideSchema(b) ==
    \/ b.user_id = "not-a-uuid"
    \/ b.payment_method_id <= 0
    \/ \E k \in 1..Len(b.items) : b.items[k].id <= 0 \/ b.items[k].quantity <= 0

\* C1: a request whose body fails schema validation is answered 400 and has
\* issued no operation against the store: no lookup, no row inserted, no
\* decrement, cart and cart items unchanged.
C1_InvalidBodyNoEffect ==
    \A r \in Req :
        Started(r) /\ OutsideSchema(req[r].body) =>
            /\ Done(r)
            /\ Status(r) = 400
            /\ req[r].ops = <<>>
            /\ StoreAsReceived(r)

C1_Witness ==
    \E r \in Req :
        /\ Done(r) /\ Status(r) = 400
        /\ req[r].body.items # <<>> /\ req[r].body.items[1].quantity = 0
        /\ carts # {} /\ cart_items # {}

\* C2: a valid request whose user_id matches no profile row is answered 404
\* with nothing written to orders, order_items, payments, no decrement and
\* the cart untouched.
C2_UnknownUser404 ==
    \A r \in Req :
        Started(r) /\ ~OutsideSchema(req[r].body) /\ ~HasProfile(req[r].body.user_id)
        /\ req[r].pc # "profile" =>
            /\ Done(r)
            /\ Status(r) = 404
            /\ Len(req[r].ops) = 1 /\ req[r].ops[1].op = "profiles.select"
            /\ StoreAsReceived(r)

C2_Witness ==
    \E r \in Req :
        /\ Done(r) /\ Status(r) = 404
        /\ req[r].body.user_id = "uuid-b" /\ Len(req[r].body.items) = MaxItems
        /\ req[r].ops = <<Op("profiles.select", 0, FALSE)>>

\* C3: a 200 response carries the id of exactly one order row, inserted by
\* this request, keyed to the profile of the request's user, whose
\* total_amount is the request's total.
C3_OrderRowOfSuccess ==
    \A r \in Req :
        Done(r) /\ Status(r) = 200 =>
            LET id == req[r].resp.order_id IN
            /\ Len(OrderRowsOf(id)) = 1
            /\ Len(orders) = 1
            /\ id = req[r].order
            /\ OpsNamed(r, "orders.insert") = <<Op("orders.insert", 0, TRUE)>>
            /\ \E p \in Profiles :
                  p.user_id = req[r].body.user_id /\ orders[id].user_id = p.id
            /\ orders[id].total_amount = req[r].body.total

C3_Witness ==
    \E r \in Req :
        /\ Done(r) /\ Status(r) = 200
        /\ req[r].body.shipping > 0 /\ Len(req[r].body.items) = MaxItems

\* C4: on a 200 response every line item, by position, has exactly one
\* order-item row of the new order with its product id, name, unit price and
\* quantity, and exactly one decrement of its quantity on its product; the
\* request caused no other order-item row and no other decrement.
C4_OneRowOneDecrementPerItem ==
    \A r \in Req :
        Done(r) /\ Status(r) = 200 =>
            LET items == req[r].body.items
                n == Len(items)
            IN
            /\ ItemRowsOf(req[r].order) = ExpectedItemRows(req[r].order, items, n)
            /\ RowCount(order_items, OrderIds) = n
            /\ DecsOf(r) = ExpectedDecs(r, items, n)
            /\ Len(OpsNamed(r, "order_items.insert")) = n
            /\ Len(OpsNamed(r, "rpc.decrement_product_stock")) = n
            /\ \A p \in Products : stock[p] = InitStock[p] - QtyOrdered(items, p)
C4_Witness ==
    \E r \in Req :
        /\ Done(r) /\ Status(r) = 200
        /\ Len(req[r].body.items) = 2
        /\ req[r].body.items[1].id = req[r].body.items[2].id
        /\ req[r].body.items[1].quantity = MaxQty

\* C5: when the payment insert fails the response is 500; the order row and
\* every order-item row and decrement of stages 2-3 stay, no payment row
\* exists for the order, and the cart is neither looked up nor changed.
C5_PaymentFailureKeepsOrder ==
    \A r \in Req :
        Op("payments.insert", 0, FALSE) \in {req[r].ops[k] : k \in 1..Len(req[r].ops)} =>
            LET items == req[r].body.items IN
            /\ Done(r)
            /\ Status(r) = 500
            /\ Len(OrderRowsOf(req[r].order)) = 1
            /\ ItemRowsOf(req[r].order) = ExpectedItemRows(req[r].order, items, Len(items))
            /\ DecsOf(r) = ExpectedDecs(r, items, Len(items))
            /\ PaymentRowsOf(req[r].order) = <<>>
            /\ CartAsReceived(r)

C5_Witness ==
    \E r \in Req :
        /\ Done(r) /\ Status(r) = 500
        /\ req[r].resp.error = "Failed to create payment"
        /\ Len(req[r].body.items) = MaxItems
        /\ cart_items # {}
\* C6 as stated: after a 200 response the order-item rows' price x quantity
\* add up to the order's total_amount, which is the payment's amount, and
\* each product's stock went down by the quantity ordered of it.  Stated for
\* the payloads with at least one line item, so that the empty list of C7
\* plays no part in its failure.
C6_RowsSumIsTotal ==
    \A r \in Req :
        Done(r) /\ Status(r) = 200 /\ req[r].body.items # <<>> =>
            /\ RowsAmount(ItemRowsOf(req[r].order)) = orders[req[r].order].total_amount
            /\ Len(PaymentRowsOf(req[r].order)) = 1
            /\ PaymentRowsOf(req[r].order)[1].amount = orders[req[r].order].total_amount
            /\ \A p \in Products :
                  stock[p] = InitStock[p] - QtyOrdered(req[r].body.items, p)

\* C6 amended: after a 200 response the order's total_amount is the request's
\* total and is the amount of the order's one payment row; the order-item
\* rows' price x quantity add up to the sum of price x quantity over the
\* request's line items (which the total, with shipping and tax in it, need
\* not equal); the request reduced each product's stock by the quantity
\* ordered of it.
C6_TotalIsPaymentAmount ==
    \A r \in Req :
        Done(r) /\ Status(r) = 200 =>
            /\ orders[req[r].order].total_amount = req[r].body.total
            /\ Len(PaymentRowsOf(req[r].order)) = 1
            /\ PaymentRowsOf(req[r].order)[1].amount = orders[req[r].order].total_amount
            /\ RowsAmount(ItemRowsOf(req[r].order)) = Subtotal(req[r].body.items)
            /\ \A p \in Products :
                  stock[p] = InitStock[p] - QtyOrdered(req[r].body.items, p)

C6_Witness ==
    \E r \in Req :
        /\ Done(r) /\ Status(r) = 200
        /\ req[r].body.shipping > 0
        /\ req[r].body.items # <<>>
        /\ \E p \in Products : stock[p] = 0

\* C7: a request whose items array is empty is rejected at validation:
\* status 400 and no order row.
C7_EmptyItemsRejected ==
    \A r \in Req :
        Started(r) /\ req[r].body.items = <<>> =>
            /\ Done(r) => Status(r) = 400
            /\ orders = <<>>

\* The names and quantities of a payload's line items, as a receipt lists them.
NamesAndQuantities(rows) ==
    [k \in 1..Len(rows) |-> [name |-> rows[k].name, quantity |-> rows[k].quantity]]

\* C8: round trip.  For every checkout that responded 200, a GET received
\* afterwards with the order number of its order responds 200 with
\* totalAmount equal to the request's total and items whose names and
\* quantities are those of the request's line items, whatever other
\* checkouts have done.
C8_RoundTrip ==
    \A r \in get.after :
        get.pc = "done" /\ get.orderNumber = orders[req[r].order].order_number =>
            /\ get.resp.status = 200
            /\ get.resp.body # <<>>
            /\ get.resp.body[1].totalAmount = req[r].body.total
            /\ NamesAndQuantities(get.resp.body[1].items)
                  = NamesAndQuantities(req[r].body.items)

\* The round trip does hold for an order whose order number no other order
\* row carries.
RoundTripWhenUnique ==
    \A r \in get.after :
        /\ get.pc = "done"
        /\ get.orderNumber = orders[req[r].order].order_number
        /\ Cardinality(SelectOrder(get.orderNumber)) = 1
        =>
            /\ get.resp.status = 200
            /\ get.resp.body # <<>>
            /\ get.resp.body[1].totalAmount = req[r].body.total
            /\ NamesAndQuantities(get.resp.body[1].items)
                  = NamesAndQuantities(req[r].body.items)

\* C9: on a 200 response a pending payment row exists for the new order, the
\* buyer's cart row that was found and every cart-item row of it are gone,
\* and the cart items were deleted before the cart.
C9_PaymentPendingCartCleared ==
    \A r \in Req :
        Done(r) /\ Status(r) = 200 =>
            /\ \E k \in 1..Len(PaymentRowsOf(req[r].order)) :
                  /\ PaymentRowsOf(req[r].order)[k].order_id = req[r].order
                  /\ PaymentRowsOf(req[r].order)[k].status = "pending"
            /\ [id |-> req[r].cart, user_id |-> req[r].body.user_id] \in before.carts
            /\ \A c \in carts : c.id # req[r].cart
            /\ \A ci \in cart_items : ci.cart_id # req[r].cart
            /\ \E j, k \in 1..Len(req[r].ops) :
                  /\ j < k
                  /\ req[r].ops[j] = Op("cart_items.delete", 0, TRUE)
                  /\ req[r].ops[k] = Op("carts.delete", 0, TRUE)

C9_Witness ==
    \E r \in Req :
        /\ Done(r) /\ Status(r) = 200
        /\ Cardinality({ci \in before.cart_items : ci.cart_id = req[r].cart}) = 2

\* C10: when the buyer has no cart row at stage 5 the response is 404 while
\* the order row, all order-item rows, all decrements and the pending
\* payment row of this request stay.
C10_NoCart404KeepsOrder ==
    \A r \in Req :
        /\ OpsNamed(r, "carts.select") # <<>>
        /\ \A c \in before.carts : c.user_id # req[r].body.user_id
        =>
            LET items == req[r].body.items IN
            /\ Done(r)
            /\ Status(r) = 404
            /\ Len(OrderRowsOf(req[r].order)) = 1
            /\ ItemRowsOf(req[r].order) = ExpectedItemRows(req[r].order, items, Len(items))
            /\ DecsOf(r) = ExpectedDecs(r, items, Len(items))
            /\ Len(PaymentRowsOf(req[r].order)) = 1
            /\ PaymentRowsOf(req[r].order)[1].status = "pending"
            /\ PaymentRowsOf(req[r].order)[1].amount = req[r].body.total

C10_Witness ==
    \E r \in Req :
        /\ Done(r) /\ Status(r) = 404
        /\ req[r].ops[Len(req[r].ops)] = Op("carts.select", 0, FALSE)
        /\ carts = {}
        /\ Len(req[r].body.items) = MaxItems

\* ------------------------------------------------------------------- C11
\* C11: every store call that fails is answered 500 with the store's message
\* in details, and a 404 is given only when the profile, the cart or the order
\* does not exist, never for a lookup that failed for another reason.  (The
\* payment lookups of the read, whose failure is tolerated, are left out.)
\* The handlers answer 404 on any error of the three lookups.
C11_FailedCallsAnswer500 ==
    /\ \A r \in Req :
          /\ Done(r) /\ req[r].resp.details = FaultMessage => Status(r) = 500
          /\ Status(r) = 404 =>
                \/ ~HasProfile(req[r].body.user_id)
                \/ ~\E c \in before.carts : c.user_id = req[r].body.user_id
    /\ get.pc = "done" /\ get.resp.details = FaultMessage => get.resp.status = 500

\* ------------------------------------------------------------------- C12
GetDone == get.pc = "done"
TheOrder == CHOOSE x \in get.order : TRUE

\* The items and the shipping block of a receipt are those of the order's rows.
ItemsAndShippingOf(receipt, o, rows) ==
    /\ Len(receipt.items) = Len(rows)
    /\ \A k \in 1..Len(rows) :
          /\ receipt.items[k].name = rows[k].product_name
          /\ receipt.items[k].quantity = rows[k].quantity
          /\ receipt.items[k].price = rows[k].price_per_item
    /\ receipt.shippingAddress.name = o.shipping.recipient_name
    /\ receipt.shippingAddress.city = o.shipping.city
    /\ receipt.totalAmount = o.total_amount

\* C12: a read of an existing order whose payment lookup returns no row (there
\* is none, or the lookup failed) is not failed by that: once the order is
\* found and the payment lookup is back empty, the only responses are the 200
\* with paymentMethod "Unknown" and the order's own items and shipping block,
\* or the 500 of an order-item or image read that failed itself.
C12_MissingPaymentStill200 ==
    get.pc \notin {"idle", "order", "payment"} /\ get.order # {} /\ get.payment = {} =>
        /\ get.pc \in {"items", "images", "done"}
        /\ GetDone =>
              \/ /\ get.resp.status = 200
                 /\ Len(get.resp.body) = 1
                 /\ get.resp.body[1].paymentMethod = "Unknown"
                 /\ ItemsAndShippingOf(get.resp.body[1], TheOrder, get.items)
              \/ /\ get.resp.status = 500
                 /\ ~get.ops[Len(get.ops)].ok
                 /\ get.ops[Len(get.ops)].op \in {"order_items.select", "product_images.select"}

\* A 200 for an order with line items and no payment row.
C12_Witness ==
    /\ GetDone /\ get.resp.status = 200 /\ get.order # {}
    /\ PaymentRowsOf(TheOrder.id) = <<>>
    /\ get.items # <<>>
    /\ get.resp.body[1].paymentMethod = "Unknown"

\* ------------------------------------------------------------------- C13
OpOk(ops, name) == \E k \in 1..Len(ops) : ops[k].op = name /\ ops[k].ok
OpFailed(ops, name) == \E k \in 1..Len(ops) : ops[k].op = name /\ ~ops[k].ok

\* The primary image of a product, or the default.
PrimaryImageOrDefault(product_id) ==
    LET imgs == {img \in ProductImages : img.product_id = product_id /\ img.is_primary}
    IN  IF imgs = {} THEN "" ELSE (CHOOSE img \in imgs : TRUE).image_url

\* The name of the payment's method, or the default.
MethodNameOrDefault ==
    IF get.payment = {} \/ ~OpOk(get.ops, "payment_methods.select") THEN "Unknown"
    ELSE (CHOOSE m \in PaymentMethods :
              m.id = (CHOOSE x \in get.payment : TRUE).payment_method_id).name

\* C13 as claimed: a read of an existing order whose order-item rows are read
\* successfully is answered 200 whatever the payment lookup and the image
\* lookup return.  An image lookup that returns an error is answered 500.
C13_ItemsReadThen200 ==
    GetDone /\ get.order # {} /\ OpOk(get.ops, "order_items.select") =>
        get.resp.status = 200

\* C13 as amended: when the order-item rows are read successfully the read is
\* answered 200 whatever the payment lookup returns (no row, or an error) and
\* whether or not a primary image matches, with the defaults "Unknown" and ""
\* substituted; an image lookup that returns an error is answered 500.
C13_MissingJoinsDefaulted ==
    GetDone /\ get.order # {} /\ OpOk(get.ops, "order_items.select") =>
        IF OpFailed(get.ops, "product_images.select")
          THEN /\ get.resp.status = 500
               /\ get.resp.error = "Failed to fetch product images"
          ELSE /\ get.resp.status = 200
               /\ get.resp.body[1].paymentMethod = MethodNameOrDefault
               /\ Len(get.resp.body[1].items) = Len(get.items)
               /\ \A k \in 1..Len(get.items) :
                     get.resp.body[1].items[k].image =
                         PrimaryImageOrDefault(get.items[k].product_id)

\* A 200 with both defaults: the payment lookup failed on an existing payment
\* row and one line item has no primary image.
C13_Witness ==
    /\ GetDone /\ get.resp.status = 200
    /\ OpFailed(get.ops, "payments.select")
    /\ PaymentRowsOf(TheOrder.id) # <<>>
    /\ get.resp.body[1].paymentMethod = "Unknown"
    /\ \E k \in 1..Len(get.items) : get.resp.body[1].items[k].image = ""
    /\ \E k \in 1..Len(get.items) : get.resp.body[1].items[k].image # ""

\* ------------------------------------------------------------------- C14
\* No order row carries the number the read asks for.  (Order rows are never
\* removed, so none did when the lookup ran.)
NoSuchOrder == \A k \in 1..Len(orders) : orders[k].order_number # get.orderNumber

\* C14: when no order row has the requested number, the read is answered 404
\* and the order lookup is the only store call it issues: no payment,
\* order-item or image lookup.
C14_NoOrder404NoLookups ==
    get.pc \notin {"idle", "order"} /\ NoSuchOrder =>
        /\ GetDone
        /\ get.resp.status = 404
        /\ get.resp.body = <<>>
        /\ Len(get.ops) = 1
        /\ get.ops[1].op = "orders.select"

\* A 404 for a number no order has, while another order is stored and the
\* lookup itself did not fail.
C14_Witness ==
    /\ GetDone /\ get.resp.status = 404
    /\ NoSuchOrder
    /\ orders # <<>>
    /\ get.resp.details # FaultMessage

\* ------------------------------------------------------------------- C15
\* The store calls a checkout of n line items makes when none fails, in order.
Programme(n) ==
    [k \in 1..(2 * n + 6) |->
        IF k = 1 THEN [op |-> "profiles.select", item |-> 0]
        ELSE IF k = 2 THEN [op |-> "orders.insert", item |-> 0]
        ELSE IF k <= 2 * n + 2
          THEN [op |-> IF k % 2 = 1 THEN "order_items.insert"
                                    ELSE "rpc.decrement_product_stock",
                item |-> (k - 1) \div 2]
        ELSE IF k = 2 * n + 3 THEN [op |-> "payments.insert", item |-> 0]
        ELSE IF k = 2 * n + 4 THEN [op |-> "carts.select", item |-> 0]
        ELSE IF k = 2 * n + 5 THEN [op |-> "cart_items.delete", item |-> 0]
        ELSE [op |-> "carts.delete", item |-> 0]]

\* How many calls of that name request r has had succeed.
CountOk(r, name) ==
    LET T(x) == x.op = name /\ x.ok IN Len(SelectSeq(req[r].ops, T))

\* Every write of a call that succeeded is still in the store.
WritesRemain(r) ==
    LET items == req[r].body.items IN
    /\ Len(orders) = CountOk(r, "orders.insert")
    /\ Len(ItemRowsOf(req[r].order)) = CountOk(r, "order_items.insert")
    /\ DecsOf(r) = ExpectedDecs(r, items, CountOk(r, "rpc.decrement_product_stock"))
    /\ Len(PaymentRowsOf(req[r].order)) = CountOk(r, "payments.insert")
    /\ CountOk(r, "cart_items.delete") = 0 => cart_items = before.cart_items
    /\ CountOk(r, "carts.delete") = 0 => carts = before.carts

\* C15: the store calls of a checkout are issued in the order profile lookup,
\* order insert, per line item the insert then the decrement, payment insert,
\* cart lookup, cart-items delete, cart delete; a call is issued only if every
\* earlier one succeeded; the first failure ends the request with an error
\* response and the writes made before it stay.
C15_CallsInProgrammeOrder ==
    \A r \in Req :
        LET ops == req[r].ops
            prog == Programme(Len(req[r].body.items))
        IN  /\ Len(ops) <= Len(prog)
            /\ \A k \in 1..Len(ops) :
                  /\ ops[k].op = prog[k].op
                  /\ ops[k].item = prog[k].item
                  /\ k < Len(ops) => ops[k].ok
            /\ ops # <<>> /\ ~ops[Len(ops)].ok =>
                  Done(r) /\ Status(r) \in {404, 500}
            /\ Done(r) /\ Status(r) = 200 =>
                  Len(ops) = Len(prog) /\ ops[Len(ops)].ok
            /\ Started(r) => WritesRemain(r)

\* The cart-items delete of a two-item checkout fails: eight calls succeeded
\* before it and their writes are in the store.
C15_Witness ==
    \E r \in Req :
        /\ Done(r) /\ Status(r) = 500
        /\ Len(req[r].body.items) = 2
        /\ Len(req[r].ops) = 9
        /\ req[r].ops[9].op = "cart_items.delete"
        /\ Len(ItemRowsOf(req[r].order)) = 2
        /\ Len(PaymentRowsOf(req[r].order)) = 1
        /\ cart_items # {}

\* ------------------------------------------------------------------- C16
\* C16: the line items are processed strictly in array order, one store call
\* at a time: an item's decrement follows its own insert, the insert of item
\* i+1 follows the successful decrement of item i, the request waits on the
\* call of exactly one item, and the rows stand in the order of the array.
C16_ItemsOneAtATimeInOrder ==
    \A r \in Req :
        LET ops == req[r].ops
            items == req[r].body.items
        IN  /\ \A k \in 1..Len(ops) :
                  /\ ops[k].op = "order_items.insert" =>
                        /\ k > 1 /\ ops[k - 1].ok
                        /\ IF ops[k].item = 1
                             THEN ops[k - 1].op = "orders.insert"
                             ELSE /\ ops[k - 1].op = "rpc.decrement_product_stock"
                                  /\ ops[k - 1].item = ops[k].item - 1
                  /\ ops[k].op = "rpc.decrement_product_stock" =>
                        /\ k > 1 /\ ops[k - 1].ok
                        /\ ops[k - 1].op = "order_items.insert"
                        /\ ops[k - 1].item = ops[k].item
            /\ req[r].pc = "item" =>
                  /\ req[r].i = CountOk(r, "order_items.insert") + 1
                  /\ req[r].i = CountOk(r, "rpc.decrement_product_stock") + 1
            /\ req[r].pc = "stock" =>
                  /\ req[r].i = CountOk(r, "order_items.insert")
                  /\ req[r].i = CountOk(r, "rpc.decrement_product_stock") + 1
            /\ Started(r) =>
                  ItemRowsOf(req[r].order) =
                      ExpectedItemRows(req[r].order, items, CountOk(r, "order_items.insert"))

\* The second of two different line items has been inserted after the first
\* one's decrement.
C16_Witness ==
    \E r \in Req :
        /\ Len(req[r].body.items) = 2
        /\ req[r].body.items[1] # req[r].body.items[2]
        /\ req[r].pc = "stock" /\ req[r].i = 2
        /\ Len(ItemRowsOf(req[r].order)) = 2

\* ------------------------------------------------------------------- C17
\* C17: when the insert or the decrement of line item k fails, the request is
\* answered 500, no call is made for an item after k, no payment row is
\* written and the cart is not deleted; the order row, the rows and the
\* decrements of the items before k, and the row of item k when it was the
\* decrement that failed, stay in the store.
C17_ItemFailureStopsAndKeeps ==
    \A r \in Req :
        LET ops == req[r].ops
            last == ops[Len(ops)]
            k == last.item
            items == req[r].body.items
            rows == IF last.op = "order_items.insert" THEN k - 1 ELSE k
        IN  ops # <<>> /\ ~last.ok
              /\ last.op \in {"order_items.insert", "rpc.decrement_product_stock"} =>
                /\ Done(r) /\ Status(r) = 500
                /\ \A j \in 1..Len(ops) : ops[j].item <= k
                /\ OpsNamed(r, "payments.insert") = <<>>
                /\ PaymentRowsOf(req[r].order) = <<>>
                /\ CartAsReceived(r)
                /\ Len(OrderRowsOf(req[r].order)) = 1
                /\ ItemRowsOf(req[r].order) = ExpectedItemRows(req[r].order, items, rows)
                /\ DecsOf(r) = ExpectedDecs(r, items, k - 1)

\* The decrement of the second line item fails: both rows and the first
\* decrement are in the store, and so is the cart.
C17_Witness ==
    \E r \in Req :
        /\ Done(r) /\ Status(r) = 500
        /\ req[r].ops[Len(req[r].ops)].op = "rpc.decrement_product_stock"
        /\ req[r].ops[Len(req[r].ops)].item = 2
        /\ Len(ItemRowsOf(req[r].order)) = 2
        /\ Len(DecsOf(r)) = 1
        /\ carts # {}

\* ------------------------------------------------------------------- C18
\* The order-item row of line item k of request r is in the store.
HasItemRow(r, k) ==
    LET rows == ItemRowsOf(req[r].order)
        it == req[r].body.items[k]
    IN  /\ k <= Len(rows)
        /\ rows[k].product_id = it.id
        /\ rows[k].quantity = it.quantity

\* A decrement of request r has been applied for a line item that has no
\* order-item row in the order.
DecrementWithoutRow(r) ==
    \E j \in 1..Len(DecsOf(r)) : ~HasItemRow(r, DecsOf(r)[j].item)

\* C18 as claimed, read on the executions it names: when a stage fails after
\* a decrement was applied, the request ends with decremented stock that has
\* no corresponding order-item row.  The code writes the row of a line item
\* before it calls the item's decrement and removes no row, so such a run
\* ends with the row of every decrement in place.
C18_FailureLeavesDecrementWithoutRow ==
    \A r \in Req :
        Done(r) /\ Status(r) >= 400 /\ DecsOf(r) # <<>> => DecrementWithoutRow(r)

\* C18 as amended: in no state of any execution is there a decrement applied
\* for a line item whose order-item row is missing from the order; a failure
\* leaves at most the converse, the row of the item whose decrement failed.
C18_DecrementHasRow ==
    \A r \in Req :
        /\ ~DecrementWithoutRow(r)
        /\ Len(DecsOf(r)) <= Len(ItemRowsOf(req[r].order))
        /\ Len(ItemRowsOf(req[r].order)) <= Len(DecsOf(r)) + 1

\* The insert of the second line item fails after the first item's decrement
\* was applied.
C18_Witness ==
    \E r \in Req :
        /\ Done(r) /\ Status(r) = 500
        /\ req[r].ops[Len(req[r].ops)].op = "order_items.insert"
        /\ req[r].ops[Len(req[r].ops)].item = 2
        /\ Len(DecsOf(r)) = 1
        /\ HasItemRow(r, 1)
        /\ stock # InitStock

\* ------------------------------------------------------------------- C19
\* No call appears twice in the log, and a call that failed is the last one
\* of a request that has responded.
IssuedOnce(r) ==
    LET ops == req[r].ops IN
    /\ \A j, k \in 1..Len(ops) :
          j < k => ops[j].op # ops[k].op \/ ops[j].item # ops[k].item
    /\ \A k \in 1..Len(ops) : ~ops[k].ok => k = Len(ops) /\ Done(r)

\* C19: the checkout never retries: every store call (per line item for the
\* item calls) is issued at most once in a request, and a failure is terminal:
\* after a failed call the request has responded and does nothing more.
C19_NoRetry ==
    [][\A r \in Req :
          /\ IssuedOnce(r)'
          /\ Done(r) => req'[r] = req[r]]_vars

\* A request ended by the failure of its last call, the cart delete, after
\* every other call succeeded once.
C19_Witness ==
    \E r \in Req :
        /\ Done(r) /\ Status(r) = 500
        /\ req[r].body.items # <<>>
        /\ req[r].ops[Len(req[r].ops)].op = "carts.delete"
        /\ carts # {}

\* ------------------------------------------------------------------- C20
\* The quantity of product p that the decrement calls of request r which
\* succeeded have taken.
RECURSIVE QtyOfDecs(_, _, _)
QtyOfDecs(decs, items, p) ==
    IF decs = <<>> THEN 0
    ELSE (IF Head(decs).product_id = p THEN items[Head(decs).item].quantity ELSE 0)
         + QtyOfDecs(Tail(decs), items, p)

RECURSIVE QtyTaken(_, _)
QtyTaken(rs, p) ==
    IF rs = {} THEN 0
    ELSE LET r == CHOOSE x \in rs : TRUE
         IN  QtyOfDecs(DecsOf(r), req[r].body.items, p) + QtyTaken(rs \ {r}, p)

\* C20: with the decrement an atomic call that fails when the result would be
\* negative, no interleaving of concurrent checkouts makes a product's stock
\* negative, and the stock is the initial stock less the quantities of the
\* decrements that succeeded; the handler reads no stock before the call: it
\* learns of a shortage from the call's failure, when the row of that line
\* item is already written.
C20_StockNeverNegative ==
    /\ \A p \in Products :
          /\ stock[p] >= 0
          /\ stock[p] = MaxStock - QtyTaken(Req, p)
    /\ \A r \in Req :
          Done(r) /\ req[r].resp.details = "insufficient stock" =>
              /\ Status(r) = 500
              /\ Len(ItemRowsOf(req[r].order)) = req[r].ops[Len(req[r].ops)].item

\* Two checkouts contend for product 1: the decrement of one is refused for
\* lack of stock after the other took its share, and the stock is not
\* negative.
C20_Witness ==
    \E r, q \in Req :
        /\ r # q
        /\ Done(r) /\ req[r].resp.details = "insufficient stock"
        /\ DecsOf(q) # <<>>
        /\ \E p \in Products : stock[p] < req[r].body.items[req[r].i].quantity

\* ------------------------------------------------------------------- C21
\* What is in stock and what the successful decrements took, together.
StockAndTaken(p) == stock[p] + QtyTaken(Req, p)

\* C21: for any interleaving of concurrent checkouts on the same product, the
\* stock of a product is its initial value less the quantities of the
\* decrement calls that have succeeded so far, and every step keeps that sum:
\* no decrement is lost.
C21_NoLostDecrement ==
    [][\A p \in Products :
          /\ StockAndTaken(p) = InitStock[p]
          /\ StockAndTaken(p)' = StockAndTaken(p)]_vars

\* Two checkouts in flight at once have both taken from product 1.
C21_Witness ==
    \E r, q \in Req :
        /\ r # q
        /\ ~Done(r) /\ ~Done(q)
        /\ \E j \in 1..Len(DecsOf(r)) : DecsOf(r)[j].product_id = 1
        /\ \E j \in 1..Len(DecsOf(q)) : DecsOf(q)[j].product_id = 1
        /\ stock[1] < InitStock[1] - 1

\* ------------------------------------------------------------------- C22
\* C22: the order number is the prefix "ORD" followed by the millisecond clock
\* value read at stage 2: every step that inserts an order row gives it the
\* number made of "ORD" and the clock of that step, whatever numbers the rows
\* already stored carry, so two inserts at the same clock value store the
\* same number.
C22_OrderNumberIsClock ==
    [][Len(orders') > Len(orders) =>
          /\ Len(orders') = Len(orders) + 1
          /\ orders'[Len(orders')].order_number = <<"ORD", clock>>
          /\ \A k \in 1..Len(orders) : orders'[k] = orders[k]]_vars

\* Two order rows of two checkouts share an order number.
C22_Witness ==
    \E r, q \in Req :
        /\ r # q
        /\ req[r].order # 0 /\ req[q].order # 0
        /\ req[r].order # req[q].order
        /\ orders[req[r].order].order_number = orders[req[q].order].order_number

\* ------------------------------------------------------------------- C23
\* The payment rows of order o: at most one, pending, for the order's total
\* and with the payment method of the request that made the order.
PaymentOfOrderOk(o) ==
    /\ Len(payments[o]) <= 1
    /\ \A k \in 1..Len(payments[o]) :
          /\ o <= Len(orders)
          /\ payments[o][k].order_id = o
          /\ payments[o][k].status = "pending"
          /\ payments[o][k].amount = orders[o].total_amount
          /\ \E r \in Req :
                /\ req[r].order = o
                /\ payments[o][k].payment_method_id = req[r].body.payment_method_id

\* C23: in every state each order has at most one payment row, every payment
\* row is pending, for the total_amount of its order and with the request's
\* payment method id, and no step changes a payment row once it is inserted.
C23_OnePendingPaymentPerOrder ==
    [][\A o \in OrderIds :
          /\ PaymentOfOrderOk(o)
          /\ PaymentOfOrderOk(o)'
          /\ Len(payments'[o]) >= Len(payments[o])
          /\ \A k \in 1..Len(payments[o]) : payments'[o][k] = payments[o][k]]_vars

\* A checkout with a shipping fee has responded 200: its payment row, written
\* three calls earlier, is for the total.
C23_Witness ==
    \E r \in Req :
        /\ Done(r) /\ Status(r) = 200
        /\ req[r].body.shipping > 0
        /\ req[r].body.items # <<>>
        /\ Len(PaymentRowsOf(req[r].order)) = 1
        /\ PaymentRowsOf(req[r].order)[1].amount = req[r].body.total

\* ------------------------------------------------------------------- C24
\* C24: once an order row is inserted, no later step of a checkout, on success
\* or on any failure path, and no step of a read modifies or deletes it or
\* any other order row; a step of the read writes to no table at all.
C24_OrderRowsNeverChange ==
    [][/\ Len(orders') >= Len(orders)
       /\ \A k \in 1..Len(orders) : orders'[k] = orders[k]
       /\ get' # get =>
             UNCHANGED <<orders, order_items, payments, stock, carts, cart_items>>]_vars

\* A checkout that failed after inserting its order and a read that returned
\* that order: the row is in the store as the read saw it.
C24_Witness ==
    \E r \in Req :
        /\ Done(r) /\ Status(r) = 500
        /\ GetDone /\ get.resp.status = 200
        /\ req[r].order # 0
        /\ get.order = {orders[req[r].order]}

\* ------------------------------------------------------------------- C25
\* A response of the handler: 200 with the order id and nothing else, or 400,
\* 404 or 500 with an error category and no order id.
WellFormed(resp) ==
    \/ resp.status = 200 /\ resp.order_id # 0 /\ resp.error = "" /\ resp.details = ""
    \/ resp.status \in {400, 404, 500} /\ resp.error # "" /\ resp.order_id = 0

\* C25: provided every store call eventually returns or throws, every checkout
\* terminates with exactly one response: its status is 200, 400, 404 or 500,
\* a 200 carries only the order id and every other status an error category,
\* anything thrown while handling (a store call that throws, a body that is
\* not JSON) is answered 500, and a request that has responded responds no
\* more.
C25_TerminatesWithOneResponse ==
    /\ \A r \in Req : Started(r) ~> Done(r)
    /\ [](\A r \in Req :
            /\ Done(r) => WellFormed(req[r].resp)
            /\ ~Done(r) => req[r].resp.status = 0
            /\ Done(r) /\ req[r].resp.error = "Something went wrong!" => Status(r) = 500)
    /\ [][\A r \in Req : Done(r) => req'[r] = req[r]]_vars

\* A store call threw after the order was written: the request has ended with
\* the 500 of the catch.
C25_Witness ==
    \E r \in Req :
        /\ Done(r) /\ Status(r) = 500
        /\ req[r].resp.error = "Something went wrong!"
        /\ req[r].order # 0
        /\ req[r].ops # <<>>

\* ------------------------------------------------------------------- C26
\* The second submission has written all that the first one wrote, again: an
\* order row of its own, the rows and decrements of every line item and a
\* pending payment.
WrittenAgain ==
    LET items == req[2].body.items IN
    /\ req[2].order # 0 /\ req[2].order # req[1].order
    /\ Len(orders) = 2
    /\ orders[req[2].order].total_amount = orders[req[1].order].total_amount
    /\ ItemRowsOf(req[2].order) = ExpectedItemRows(req[2].order, items, Len(items))
    /\ DecsOf(2) = ExpectedDecs(2, items, Len(items))
    /\ \A p \in Products : stock[p] = InitStock[p] - 2 * QtyOrdered(items, p)
    /\ Len(PaymentRowsOf(req[2].order)) = 1
    /\ PaymentRowsOf(req[2].order)[1].status = "pending"
    /\ Len(PaymentRowsOf(req[1].order)) = 1

\* C26 as claimed: the same valid payload submitted again after a 200 writes a
\* second order, its rows, decrements and payment, and is answered 404 for
\* the cart that is gone.  A second submission for more than what is left in
\* stock is answered 500 by its decrement.
C26_ResubmissionWritesAgainThen404 ==
    Done(2) => Status(2) = 404 /\ WrittenAgain

\* C26 as amended: the second submission always inserts a second order row;
\* when the stock left covers its line items it writes everything again and
\* is answered 404 "Cart not found for user", and otherwise the decrement of
\* the first item that the stock does not cover fails, the request is
\* answered 500 with the rows up to that item written and no second payment.
C26_ResubmissionWritesAgain ==
    Done(2) =>
        /\ req[1].resp.status = 200
        /\ req[2].body = req[1].body
        /\ Len(orders) = 2 /\ req[2].order = 2
        /\ \/ /\ Status(2) = 404
              /\ req[2].resp.error = "Cart not found for user"
              /\ WrittenAgain
           \/ /\ Status(2) = 500
              /\ req[2].resp.error = "Failed to update product stock"
              /\ Len(ItemRowsOf(req[2].order)) = Len(DecsOf(2)) + 1
              /\ \E p \in Products :
                    stock[p] < req[2].body.items[Len(DecsOf(2)) + 1].quantity
              /\ PaymentRowsOf(req[2].order) = <<>>

\* The second submission of a payload with line items has ended 404 with its
\* own order, rows and payment.
C26_Witness ==
    /\ Done(2) /\ Status(2) = 404
    /\ req[2].body.items # <<>>
    /\ WrittenAgain
    /\ carts = {}

\* ------------------------------------------------------------------- C27
\* C27: at every point of a checkout over n line items, with k the number of
\* order-item rows it has inserted and j the number of decrements it has
\* applied, the rows are those of the first k items, the decrements those of
\* the first j items, j <= k <= j + 1 and k <= n, and its payment row exists
\* only if j = k = n.
C27_PrefixInvariant ==
    \A r \in Req :
        LET items == req[r].body.items
            n == Len(items)
            k == Len(ItemRowsOf(req[r].order))
            j == Len(DecsOf(r))
        IN  Started(r) =>
              /\ k <= n
              /\ j <= k /\ k <= j + 1
              /\ \A x \in 1..k :
                    /\ ItemRowsOf(req[r].order)[x].product_id = items[x].id
                    /\ ItemRowsOf(req[r].order)[x].quantity = items[x].quantity
                    /\ ItemRowsOf(req[r].order)[x].order_id = req[r].order
              /\ \A x \in 1..j : DecsOf(r)[x].item = x
              /\ PaymentRowsOf(req[r].order) # <<>> => j = n /\ k = n

\* Between the insert and the decrement of the second of two line items:
\* k = 2, j = 1 and no payment.
C27_Witness ==
    \E r \in Req :
        /\ ~Done(r)
        /\ Len(req[r].body.items) = 2
        /\ Len(ItemRowsOf(req[r].order)) = 2
        /\ Len(DecsOf(r)) = 1
        /\ PaymentRowsOf(req[r].order) = <<>>

\* ------------------------------------------------------------------- C28
\* The order rows that carry the number the read asks for.
RowsWithNumber == {k \in 1..Len(orders) : orders[k].order_number = get.orderNumber}

\* C28: when two order rows share the requested order number, the single-row
\* order lookup of the read fails and the read is answered 404 "Order not
\* found" without another lookup: neither order is retrievable by its
\* number although both exist.
C28_SharedNumberIs404 ==
    [][get.pc = "order" /\ get'.pc # "order" /\ Cardinality(RowsWithNumber) >= 2 =>
          /\ get'.pc = "done"
          /\ get'.resp.status = 404
          /\ get'.resp.error = "Order not found"
          /\ get'.resp.body = <<>>
          /\ Len(get'.ops) = 1]_vars

\* Two checkouts had responded 200 with orders of the same number when the
\* read for that number was received; the read is answered 404.
C28_Witness ==
    /\ GetDone /\ get.resp.status = 404
    /\ \E r, q \in get.after :
          /\ r # q
          /\ req[r].order \in RowsWithNumber
          /\ req[q].order \in RowsWithNumber
          /\ req[r].order # req[q].order

\* ------------------------------------------------------------------ C29
CartsOf(u) == {c \in carts : c.user_id = u}

\* C29: in every reachable state there is at most one cart row per buyer,
\* whatever the interleaving of add-to-cart requests and checkouts; so the
\* single-row cart lookup of a checkout never fails because of several carts.
C29_OneCartPerBuyer == \A u \in UuidStrings : Cardinality(CartsOf(u)) <= 1

\* The consequence the claim excludes: a checkout answered "Cart not found"
\* while the buyer has carts.
CartLookupFailsOnSeveral ==
    \E r \in Req :
        /\ Done(r)
        /\ req[r].resp.error = CartNotFound.error
        /\ Cardinality(SelectCart(req[r].body.user_id)) > 1

\* ------------------------------------------------------------------ C30
\* The request wrote its row while checkout r was past its start and before
\* its stage 5.
UpsertedDuring(a, r) ==
    /\ add[a].resp.status = 201
    /\ add[a].at[r] \in {"profile", "order", "item", "stock", "payment"}

InSomeOrder(row) ==
    \E o \in OrderIds : \E k \in 1..Len(ItemRowsOf(o)) :
        /\ ItemRowsOf(o)[k].product_id = row.product_id
        /\ ItemRowsOf(o)[k].quantity = row.quantity

\* C30: a checkout never reads the cart's contents.  The item rows of its
\* order are those of the payload, whatever the cart holds, and the delete of
\* stage 5 leaves no row of the buyer's cart, whatever the cart holds: a row
\* an add-to-cart request wrote after the checkout started is deleted too,
\* and is in no order.
C30_CartContentsIgnored ==
    /\ [](\A r \in Req : req[r].order \in OrderIds =>
            ItemRowsOf(req[r].order)
                = ExpectedItemRows(req[r].order, req[r].body.items,
                                   Len(ItemRowsOf(req[r].order))))
    /\ [][\A r \in Req :
            (req[r].pc = "delitems" /\ req'[r].pc = "delcart")
                => /\ \A ci \in cart_items' : ci.cart_id # req[r].cart
                   /\ \A ci \in cart_items : ci.cart_id # req[r].cart => ci \in cart_items'
                   /\ order_items' = order_items]_vars

\* A row written into the cart between the start of a checkout and its stage
\* 5, gone after the checkout's 200 and in no order.
C30_Witness ==
    \E a \in AddReq : \E r \in Req :
        /\ UpsertedDuring(a, r)
        /\ Done(r) /\ Status(r) = 200
        /\ add[a].cart = req[r].cart
        /\ CartItemRow(a) \notin cart_items
        /\ ~InSomeOrder(CartItemRow(a))
====
